---- MODULE Spec2Model ----
(***************************************************************************)
(* Model of the LinkProtect check engine (app/chkengine.py) and of the     *)
(* POST /scan handler (app/main.py).                                       *)
(*                                                                         *)
(* Text is modelled as a sequence of one-character strings, so that        *)
(* urlparse, str.endswith, str.startswith and the substring test are       *)
(* computed, not assumed.  The values of app/strings.py are opaque,        *)
(* pairwise distinct, non-empty texts named after their identifiers.       *)
(* The event loop is the FIFO ready queue of asyncio: a coroutine runs     *)
(* from one await to the next without interleaving.                        *)
(***************************************************************************)
EXTENDS Integers, Sequences, FiniteSets, TLC

(***************************************************************************)
(* Bounds                                                                  *)
(***************************************************************************)
\* number of calls of check() in one behaviour
MaxCalls == 2

(***************************************************************************)
(* Text helpers (Python str operations on character sequences)             *)
(***************************************************************************)
UpperChars == <<"A","B","C","D","E","F","G","H","I","J","K","L","M",
                "N","O","P","Q","R","S","T","U","V","W","X","Y","Z">>
LowerChars == <<"a","b","c","d","e","f","g","h","i","j","k","l","m",
                "n","o","p","q","r","s","t","u","v","w","x","y","z">>
DigitChars == <<"0","1","2","3","4","5","6","7","8","9">>

Range(f) == {f[i] : i \in DOMAIN f}

\* str.lower() on one character
LowerChar(c) ==
    IF c \in Range(UpperChars)
    THEN LowerChars[CHOOSE i \in DOMAIN UpperChars : UpperChars[i] = c]
    ELSE c

\* str.lower()
Lower(s) == [i \in DOMAIN s |-> LowerChar(s[i])]

\* str.startswith(p)
StartsWith(s, p) ==
    /\ Len(p) <= Len(s)
    /\ SubSeq(s, 1, Len(p)) = p

\* str.endswith(p)
EndsWith(s, p) ==
    /\ Len(p) <= Len(s)
    /\ SubSeq(s, Len(s) - Len(p) + 1, Len(s)) = p

\* p in s (substring test)
Contains(s, p) ==
    \E i \in 1..(Len(s) - Len(p) + 1) : SubSeq(s, i, i + Len(p) - 1) = p

\* str.find(c) for a set of characters, 1-based; 0 when absent
FindAny(s, cs) ==
    IF \E i \in DOMAIN s : s[i] \in cs
    THEN CHOOSE i \in DOMAIN s : s[i] \in cs /\ \A j \in 1..(i-1) : s[j] \notin cs
    ELSE 0

\* str.rfind(c), 1-based; 0 when absent
RFind(s, c) ==
    IF \E i \in DOMAIN s : s[i] = c
    THEN CHOOSE i \in DOMAIN s : s[i] = c /\ \A j \in (i+1)..Len(s) : s[j] # c
    ELSE 0

\* s[i:] with a 1-based first index
From(s, i) == SubSeq(s, i, Len(s))

\* s[:i] exclusive of the 1-based index i
Before(s, i) == SubSeq(s, 1, i - 1)

\* str.split(c)
RECURSIVE Split(_, _)
Split(s, c) ==
    LET i == FindAny(s, {c})
    IN  IF i = 0 THEN <<s>> ELSE <<Before(s, i)>> \o Split(From(s, i + 1), c)

\* int(octet) for a string of decimal digits
RECURSIVE ToInt(_)
ToInt(s) ==
    IF s = <<>> THEN 0
    ELSE 10 * ToInt(Before(s, Len(s)))
         + (CHOOSE d \in DOMAIN DigitChars : DigitChars[d] = s[Len(s)]) - 1

(***************************************************************************)
(* Inputs: the URLs submitted to the engine                                *)
(***************************************************************************)
\* https://yandex.ru
UrlTrusted == <<"h","t","t","p","s",":","/","/","y","a","n","d","e","x",".","r","u">>
\* http://example.com
UrlHttp == <<"h","t","t","p",":","/","/","e","x","a","m","p","l","e",".","c","o","m">>
\* https://203.0.113.5/login
UrlIp == <<"h","t","t","p","s",":","/","/","2","0","3",".","0",".","1","1","3",".","5","/","l","o","g","i","n">>
\* http://203.0.113.5
UrlHttpIp == <<"h","t","t","p",":","/","/","2","0","3",".","0",".","1","1","3",".","5">>
\* https://yandex-login.tk
UrlTypoTld == <<"h","t","t","p","s",":","/","/","y","a","n","d","e","x","-","l","o","g","i","n",".","t","k">>
\* https://[::1   (urlsplit raises ValueError: Invalid IPv6 URL)
UrlBad == <<"h","t","t","p","s",":","/","/","[",":",":","1">>
\* https://bit.ly/x
UrlShort == <<"h","t","t","p","s",":","/","/","b","i","t",".","l","y","/","x">>
\* HTTP://Mail.RU
UrlUpper == <<"H","T","T","P",":","/","/","M","a","i","l",".","R","U">>
\* https:///x   (no hostname)
UrlNoHost == <<"h","t","t","p","s",":","/","/","/","x">>
\* https://m.ozon.ru:8443
UrlSub == <<"h","t","t","p","s",":","/","/","m",".","o","z","o","n",".","r","u",":","8","4","4","3">>
\* ftp://a.xyz
UrlFtpTld == <<"f","t","p",":","/","/","a",".","x","y","z">>
\* https://Google.COM:443
UrlTrustedPort == <<"h","t","t","p","s",":","/","/","G","o","o","g","l","e",".","C","O","M",":","4","4","3">>
\* https://a.org
UrlPlain == <<"h","t","t","p","s",":","/","/","a",".","o","r","g">>

Urls == {UrlTrusted, UrlHttp, UrlIp, UrlHttpIp, UrlTypoTld, UrlBad, UrlShort,
         UrlUpper, UrlNoHost, UrlSub, UrlFtpTld, UrlTrustedPort, UrlPlain}

\* models.UserSettings
UserSettings == [allow_get_links_contents : BOOLEAN, link_deep_check : BOOLEAN]

\* models.ScanRequest
ScanRequest == [url : Urls, settings : UserSettings]

(***************************************************************************)
(* urllib.parse.urlparse, as called by every unit                          *)
(***************************************************************************)
scheme_chars == Range(UpperChars) \cup Range(LowerChars) \cup Range(DigitChars)
                \cup {"+", "-", "."}

\* the scheme split of urlsplit: <<scheme, rest>>
SplitScheme(url) ==
    LET i == FindAny(url, {":"})
    IN  IF /\ i > 1
           /\ url[1] \in Range(UpperChars) \cup Range(LowerChars)
           /\ \A j \in 1..(i-1) : url[j] \in scheme_chars
        THEN <<Lower(Before(url, i)), From(url, i + 1)>>
        ELSE <<<<>>, url>>

\* _splitnetloc(url, 2): the text between "//" and the first of "/", "?", "#"
SplitNetloc(rest) ==
    LET tail == From(rest, 3)
        d    == FindAny(tail, {"/", "?", "#"})
    IN  IF d = 0 THEN tail ELSE Before(tail, d)

\* urlparse(url): ok = FALSE stands for the ValueError("Invalid IPv6 URL")
urlparse(url) ==
    LET ss     == SplitScheme(url)
        rest   == ss[2]
        netloc == IF StartsWith(rest, <<"/", "/">>) THEN SplitNetloc(rest) ELSE <<>>
        open   == "[" \in Range(netloc)
        close  == "]" \in Range(netloc)
    IN  [ok |-> ~((open /\ ~close) \/ (close /\ ~open)),
         scheme |-> ss[1], netloc |-> netloc]

\* ParseResult.hostname; <<>> stands for None
hostname(parsed) ==
    LET netloc   == parsed.netloc
        hostinfo == From(netloc, RFind(netloc, "@") + 1)
        br       == FindAny(hostinfo, {"["})
        host     == IF br # 0
                    THEN LET bracketed == From(hostinfo, br + 1)
                             e == FindAny(bracketed, {"]"})
                         IN  IF e = 0 THEN bracketed ELSE Before(bracketed, e)
                    ELSE LET c == FindAny(hostinfo, {":"})
                         IN  IF c = 0 THEN hostinfo ELSE Before(hostinfo, c)
        pct      == FindAny(host, {"%"})
    IN  IF pct = 0 THEN Lower(host)
        ELSE Lower(Before(host, pct)) \o From(host, pct)

\* ipaddress.ip_address(h) succeeds.  A hostname taken from a netloc without
\* brackets holds no ":", so only the IPv4 parser can accept it: four
\* decimal octets of at most three digits, no leading zero, each <= 255.
ip_address(h) ==
    LET octets == Split(h, ".")
    IN  /\ Len(octets) = 4
        /\ \A k \in 1..4 :
              LET o == octets[k]
              IN  /\ Len(o) \in 1..3
                  /\ \A j \in DOMAIN o : o[j] \in Range(DigitChars)
                  /\ (Len(o) > 1 => o[1] # "0")
                  /\ ToInt(o) <= 255

(***************************************************************************)
(* Outcomes of one unit: what its coroutine returns or raises              *)
(***************************************************************************)
\* return None
Pass == [kind |-> "Pass", note |-> "", virus_type |-> "", virus_consequences |-> ""]
\* return <text of app/strings.py>
Advisory(t) == [kind |-> "Advisory", note |-> t, virus_type |-> "", virus_consequences |-> ""]
\* raise CheckFailed(virus_type, virus_consequences)
Veto(vt, vc) == [kind |-> "Veto", note |-> "", virus_type |-> vt, virus_consequences |-> vc]
\* any exception other than CheckFailed
Fail(e) == [kind |-> "Fail", note |-> e, virus_type |-> "", virus_consequences |-> ""]
\* the unit has not finished yet
Pending == [kind |-> "Pending", note |-> "", virus_type |-> "", virus_consequences |-> ""]
\* the unit is suspended in _session.get(...)
Fetching == [kind |-> "Fetching", note |-> "", virus_type |-> "", virus_consequences |-> ""]

\* the exception urlparse raises inside a unit
UrlError == Fail("ValueError")

(***************************************************************************)
(* The check units                                                         *)
(***************************************************************************)
\* HTTPCheck that takes a URL urlparse rejects for a URL that is not https
HTTPCheck_ParseGuard(req) ==
    LET parsed == urlparse(req.url)
    IN  IF ~parsed.ok THEN Veto("UNSAFE_HTTP", "UNSAFE_HTTP_DESC")
        ELSE IF parsed.scheme # <<"h","t","t","p","s">>
        THEN Veto("UNSAFE_HTTP", "UNSAFE_HTTP_DESC")
        ELSE Pass

HTTPCheck(req) ==
    LET parsed == urlparse(req.url)
    IN  IF ~parsed.ok THEN UrlError
        ELSE IF parsed.scheme # <<"h","t","t","p","s">>
        THEN Veto("UNSAFE_HTTP", "UNSAFE_HTTP_DESC")
        ELSE Pass

DomainZoneInfo(req) ==
    LET parsed == urlparse(req.url)
        domain == hostname(parsed)
    IN  IF ~parsed.ok THEN UrlError
        ELSE IF domain = <<>> THEN Pass
        ELSE IF EndsWith(domain, <<".","r","u">>) THEN Advisory("RU_DOMAIN_ZONE")
        ELSE IF EndsWith(domain, <<".","c","o","m">>) THEN Advisory("COM_DOMAIN_ZONE")
        ELSE Advisory("FN_DOMAIN_ZONE")

_trusted_domains ==
    {<<"y","a","n","d","e","x",".","r","u">>,
     <<"o","z","o","n",".","r","u">>,
     <<"m","a","i","l",".","r","u">>,
     <<"r","u","t","u","b","e",".","r","u">>,
     <<"g","o","v",".","r","u">>,
     <<"g","o","o","g","l","e",".","c","o","m">>}

\* KnownTrusted looking up the raw netloc instead of the parsed hostname
KnownTrusted_Netloc(req) ==
    LET parsed == urlparse(req.url)
    IN  IF ~parsed.ok THEN UrlError
        ELSE IF parsed.netloc \in _trusted_domains THEN Advisory("TRUSTED_DOMAIN")
        ELSE Pass

KnownTrusted(req) ==
    LET parsed == urlparse(req.url)
        domain == hostname(parsed)
    IN  IF ~parsed.ok THEN UrlError
        ELSE IF domain \in _trusted_domains THEN Advisory("TRUSTED_DOMAIN")
        ELSE Pass

\* IPDomainCheck with "except Exception" in place of "except ValueError":
\* the CheckFailed raised inside the try block is swallowed
IPDomainCheck_CatchAll(req) ==
    LET parsed == urlparse(req.url)
    IN  IF ~parsed.ok THEN UrlError ELSE Pass

IPDomainCheck(req) ==
    LET parsed == urlparse(req.url)
        host   == hostname(parsed)
    IN  IF ~parsed.ok THEN UrlError
        ELSE IF host = <<>> THEN Pass
        ELSE IF ip_address(host) THEN Veto("IP_DOMAIN", "IP_DOMAIN_DESC")
        ELSE Pass

_bad_tlds ==
    {<<".","t","k">>, <<".","m","l">>, <<".","g","a">>, <<".","c","f">>,
     <<".","g","q">>, <<".","p","w">>, <<".","x","y","z">>, <<".","t","o","p">>,
     <<".","c","l","u","b">>}

SuspiciousTLDCheck(req) ==
    LET parsed == urlparse(req.url)
        host   == hostname(parsed)
    IN  IF ~parsed.ok THEN UrlError
        ELSE IF host # <<>> /\ \E tld \in _bad_tlds : EndsWith(host, tld)
        THEN Veto("SUSPICIOUS_TLD", "SUSPICIOUS_TLD_DESC")
        ELSE Pass

_shorteners ==
    {<<"b","i","t",".","l","y">>, <<"t","i","n","y","u","r","l",".","c","o","m">>,
     <<"g","o","o",".","g","l">>, <<"c","l","c","k",".","r","u">>,
     <<"t",".","c","o">>, <<"i","s",".","g","d">>, <<"v","k",".","c","c">>,
     <<"t",".","m","e">>}

URLShortenerCheck(req) ==
    LET parsed == urlparse(req.url)
        host   == hostname(parsed)
    IN  IF ~parsed.ok THEN UrlError
        ELSE IF host # <<>> /\ host \in _shorteners THEN Advisory("URL_SHORTENER_WARNING")
        ELSE Pass

_target_brands ==
    {<<"y","a","n","d","e","x">>, <<"o","z","o","n">>, <<"m","a","i","l">>,
     <<"r","u","t","u","b","e">>, <<"s","b","e","r">>, <<"v","k">>,
     <<"t","i","n","k","o","f","f">>, <<"g","o","s","u","s","l","u","g","i">>}

TyposquattingCheck(req) ==
    LET parsed == urlparse(req.url)
        host   == hostname(parsed)
    IN  IF ~parsed.ok THEN UrlError
        ELSE IF host = <<>> THEN Pass
        ELSE IF \/ host \in _trusted_domains
                \/ \E td \in _trusted_domains : EndsWith(host, <<".">> \o td)
        THEN Pass
        ELSE IF \E brand \in _target_brands : Contains(Lower(host), brand)
        THEN Veto("TYPOSQUATTING", "TYPOSQUATTING_DESC")
        ELSE Pass

(***************************************************************************)
(* DeepContentCheck: the part before the fetch and the part after it       *)
(***************************************************************************)
\* response bodies the remote server may send
BodyClean  == <<"<","p",">","o","k">>
BodyEval   == <<"<","S","C","R","I","P","T",">","E","V","A","L","(","x",")">>
BodyEscape == <<"u","n","e","s","c","a","p","e","(","x",")">>

\* what _session.get(url, timeout=4) followed by response.text() can end in:
\* a body, or an exception raised inside the try block
Body(b) == [ok |-> TRUE, body |-> b, error |-> ""]
\* the fetch failed: network error, timeout or body decode error
FetchError == [ok |-> FALSE, body |-> <<>>, error |-> "ClientError"]
\* the client refused the URL before any network traffic
UrlRejected == [ok |-> FALSE, body |-> <<>>, error |-> "InvalidURL"]
Responses == {Body(b) : b \in {BodyClean, BodyEval, BodyEscape}}
             \cup {FetchError, UrlRejected}

\* aiohttp only retrieves URLs it can parse, with a host and the scheme http
\* or https; it refuses any other URL
Fetchable(url) ==
    LET parsed == urlparse(url)
    IN  /\ parsed.ok
        /\ parsed.scheme \in {<<"h","t","t","p">>, <<"h","t","t","p","s">>}
        /\ hostname(parsed) # <<>>

\* the submitted URLs the client accepts
FetchableUrls == {u \in Urls : Fetchable(u)}

\* the fetch of line 116 without its timeout, asked of a server that never
\* answers
ResponsesFor_NoTimeout(url) == {}

ResponsesFor(url) ==
    IF url \in FetchableUrls THEN Responses \ {UrlRejected} ELSE {UrlRejected}

\* DeepContentCheck that ignores link_deep_check at line 109
DeepContentCheckFetches_IgnoresDeep(req, session) ==
    /\ req.settings.allow_get_links_contents
    /\ (req.settings.link_deep_check \/ ~req.settings.link_deep_check)
    /\ session # 0

\* DeepContentCheck with "and" in place of "or" at line 109
DeepContentCheckFetches_Or(req, session) ==
    /\ (req.settings.allow_get_links_contents \/ req.settings.link_deep_check)
    /\ session # 0

\* DeepContentCheck that tests allow_get_links_contents only at line 109
DeepContentCheckFetches_AllowOnly(req, session) ==
    /\ req.settings.allow_get_links_contents
    /\ session # 0

\* lines 109-113: TRUE when the unit goes on to _session.get
DeepContentCheckFetches(req, session) ==
    /\ req.settings.allow_get_links_contents
    /\ req.settings.link_deep_check
    /\ session # 0

\* lines 109-113: the outcome when the unit returns without fetching
DeepContentCheckSkip == Pass

\* DeepContentCheck without the "except Exception" clause of lines 125-127
DeepContentCheckResume_Raises(resp) ==
    IF ~resp.ok THEN Fail("ClientError")
    ELSE LET content_lower == Lower(resp.body)
         IN  IF \/ Contains(content_lower, <<"<","s","c","r","i","p","t",">","e","v","a","l","(">>)
                \/ Contains(content_lower, <<"u","n","e","s","c","a","p","e","(">>)
             THEN Veto("MALICIOUS_CODE", "MALICIOUS_CODE_DESC")
             ELSE Pass

\* lines 114-127: the outcome once the fetch has ended in resp
DeepContentCheckResume(resp) ==
    IF ~resp.ok THEN Advisory("DEEP_CHECK_FAILED_WARNING")
    ELSE LET content_lower == Lower(resp.body)
         IN  IF \/ Contains(content_lower, <<"<","s","c","r","i","p","t",">","e","v","a","l","(">>)
                \/ Contains(content_lower, <<"u","n","e","s","c","a","p","e","(">>)
             THEN Veto("MALICIOUS_CODE", "MALICIOUS_CODE_DESC")
             ELSE Pass

\* enabled_checks: the registry, in order
NumChecks == 8
DeepIndex == 8

\* the outcome of the unit at index i when it never suspends
PureCheck(i, req) ==
    CASE i = 1 -> HTTPCheck(req)
      [] i = 2 -> DomainZoneInfo(req)
      [] i = 3 -> KnownTrusted(req)
      [] i = 4 -> IPDomainCheck(req)
      [] i = 5 -> SuspiciousTLDCheck(req)
      [] i = 6 -> URLShortenerCheck(req)
      [] i = 7 -> TyposquattingCheck(req)

(***************************************************************************)
(* State                                                                   *)
(***************************************************************************)
\* the coroutines of check() that may be alive at the same time
Scans == {"a", "b"}

VARIABLES
    _session,    \* the module-level client: 0 is None, n > 0 the n-th ClientSession
    created,     \* how many times aiohttp.ClientSession() was called
    ready,       \* the FIFO ready queue of the event loop
    pc,          \* per scan: where its check() coroutine stands
    seen,        \* per scan: the value of _session read at line 142
    req,         \* per scan: the ScanRequest
    outcome,     \* per scan: the outcome of each unit's task, in registry order
    resp,        \* per scan: what the fetch ended in, once it has ended
    used,        \* per scan: the client the fetch was issued on (0: no fetch)
    outer,       \* per scan: the future returned by asyncio.gather
    nfinished,   \* per scan: gather's count of finished children
    done_order,  \* per scan: the unit indices in the order their tasks finished
    via,         \* per scan: the source line of the return statement taken
    verdict,     \* per scan: the ScanResponse returned
    calls,       \* number of calls of check() so far
    http         \* per scan: what POST /scan answers for the same request

vars == <<_session, created, ready, pc, seen, req, outcome, resp, used, outer,
          nfinished, done_order, via, verdict, calls, http>>

NoRequest == [url |-> <<>>,
              settings |-> [allow_get_links_contents |-> FALSE, link_deep_check |-> FALSE]]
NoResponse == [ok |-> FALSE, body |-> <<>>, error |-> "-"]
NoVerdict == [result |-> FALSE, additional_info |-> <<"-">>,
              virus_type |-> "-", virus_consequences |-> "-"]

\* models.ScanResponse; None is the text "None"; additional_info is the
\* sequence of the texts concatenated into it
ScanResponse(result, additional_info, virus_type, virus_consequences) ==
    [result |-> result, additional_info |-> additional_info,
     virus_type |-> virus_type, virus_consequences |-> virus_consequences]

\* the future of gather
OuterPending == [state |-> "pending", exc |-> Pending]
OuterResult == [state |-> "result", exc |-> Pending]
OuterException(e) == [state |-> "exception", exc |-> e]

Handle(t, s, i) == [type |-> t, scan |-> s, unit |-> i]

\* the event loop runs one callback at a time: lines 149-169 hold no await
LoopIdle == \A s \in Scans : pc[s] \in {"Idle", "Started", "FannedOut", "Returned"}

Init ==
    /\ _session = 0
    /\ created = 0
    /\ ready = <<>>
    /\ pc = [s \in Scans |-> "Idle"]
    /\ seen = [s \in Scans |-> 0]
    /\ req = [s \in Scans |-> NoRequest]
    /\ outcome = [s \in Scans |-> [i \in 1..NumChecks |-> Pending]]
    /\ resp = [s \in Scans |-> NoResponse]
    /\ used = [s \in Scans |-> 0]
    /\ outer = [s \in Scans |-> OuterPending]
    /\ nfinished = [s \in Scans |-> 0]
    /\ done_order = [s \in Scans |-> <<>>]
    /\ via = [s \in Scans |-> 0]
    /\ verdict = [s \in Scans |-> NoVerdict]
    /\ calls = 0
    /\ http = [s \in Scans |-> NoVerdict]

(***************************************************************************)
(* main.py: the handler of POST /scan                                      *)
(***************************************************************************)
\* main.scan, lines 34-42: it tests the prefix of the URL and nothing else
scan(r) ==
    IF StartsWith(r.url, <<"h","t","t","p",":","/","/">>)
    THEN ScanResponse(FALSE, <<>>, "UNSAFE_HTTP", "UNSAFE_HTTP_DESC")
    ELSE ScanResponse(TRUE, <<"SAFE">>, "None", "None")

(***************************************************************************)
(* check(): lines 140-148, up to the await of gather                       *)
(***************************************************************************)
\* a request arrives: POST /scan answers it at once, and a caller creates
\* the coroutine check(r) for the same request and schedules it
Call(s, r) ==
    /\ LoopIdle
    /\ pc[s] \in {"Idle", "Returned"}
    /\ calls < MaxCalls
    /\ calls' = calls + 1
    /\ pc' = [pc EXCEPT ![s] = "Started"]
    /\ seen' = [seen EXCEPT ![s] = 0]
    /\ req' = [req EXCEPT ![s] = r]
    /\ outcome' = [outcome EXCEPT ![s] = [i \in 1..NumChecks |-> Pending]]
    /\ resp' = [resp EXCEPT ![s] = NoResponse]
    /\ used' = [used EXCEPT ![s] = 0]
    /\ outer' = [outer EXCEPT ![s] = OuterPending]
    /\ nfinished' = [nfinished EXCEPT ![s] = 0]
    /\ done_order' = [done_order EXCEPT ![s] = <<>>]
    /\ via' = [via EXCEPT ![s] = 0]
    /\ verdict' = [verdict EXCEPT ![s] = NoVerdict]
    /\ ready' = Append(ready, Handle("check", s, 0))
    /\ http' = [http EXCEPT ![s] = scan(r)]
    /\ UNCHANGED <<_session, created>>

\* lines 141-143 without the test of line 142: every scan makes a client
EnsureSession_Always(session, n) == IF session = 0 THEN n + 1 ELSE session + 1

\* lines 141-143 without "global _session": the module's name stays None
EnsureSession_Local(session, n) == session

\* lines 142-143: the client after the lazy initialisation
EnsureSession(session, n) == IF session = 0 THEN n + 1 ELSE session

\* gather handed the units in reverse order
UnitTasks_Reversed(s) == [i \in 1..NumChecks |-> Handle("unit", s, NumChecks + 1 - i)]

\* lines 145-146: gather wraps the coroutines into tasks in argument order
UnitTasks(s) == [i \in 1..NumChecks |-> Handle("unit", s, i)]

\* lines 141-148: initialise the client, create the tasks, await gather
CheckBegin(s) ==
    /\ LoopIdle
    /\ ready # <<>>
    /\ Head(ready) = Handle("check", s, 0)
    /\ _session' = EnsureSession(_session, created)
    /\ created' = IF _session = 0 THEN created + 1 ELSE created
    /\ ready' = Tail(ready) \o UnitTasks(s)
    /\ pc' = [pc EXCEPT ![s] = "FannedOut"]
    /\ seen' = [seen EXCEPT ![s] = _session]
    /\ UNCHANGED <<req, outcome, resp, used, outer, nfinished, done_order,
                   via, verdict, calls, http>>

(***************************************************************************)
(* The unit tasks                                                          *)
(***************************************************************************)
\* a unit that never suspends runs to completion in its first step
RunPure(s, i) ==
    /\ LoopIdle
    /\ ready # <<>>
    /\ Head(ready) = Handle("unit", s, i)
    /\ i # DeepIndex
    /\ outcome' = [outcome EXCEPT ![s][i] = PureCheck(i, req[s])]
    /\ done_order' = [done_order EXCEPT ![s] = Append(@, i)]
    /\ ready' = Append(Tail(ready), Handle("done", s, i))
    /\ UNCHANGED <<_session, created, pc, seen, req, resp, used, outer, nfinished,
                   via, verdict, calls, http>>

\* DeepContentCheck, lines 109-116: return at once, or suspend in the fetch
RunDeep(s) ==
    /\ LoopIdle
    /\ ready # <<>>
    /\ Head(ready) = Handle("unit", s, DeepIndex)
    /\ IF DeepContentCheckFetches(req[s], _session)
       THEN /\ outcome' = [outcome EXCEPT ![s][DeepIndex] = Fetching]
            /\ used' = [used EXCEPT ![s] = _session]
            /\ ready' = Tail(ready)
            /\ UNCHANGED done_order
       ELSE /\ outcome' = [outcome EXCEPT ![s][DeepIndex] = DeepContentCheckSkip]
            /\ done_order' = [done_order EXCEPT ![s] = Append(@, DeepIndex)]
            /\ ready' = Append(Tail(ready), Handle("done", s, DeepIndex))
            /\ UNCHANGED used
    /\ UNCHANGED <<_session, created, pc, seen, req, resp, outer, nfinished,
                   via, verdict, calls, http>>

\* the fetch ends (body received, error or timeout): the task is woken
FetchComplete(s, r) ==
    /\ LoopIdle
    /\ outcome[s][DeepIndex] = Fetching
    /\ resp[s] = NoResponse
    /\ r \in ResponsesFor(req[s].url)
    /\ resp' = [resp EXCEPT ![s] = r]
    /\ ready' = Append(ready, Handle("resume", s, DeepIndex))
    /\ UNCHANGED <<_session, created, pc, seen, req, outcome, used, outer, nfinished,
                   done_order, via, verdict, calls, http>>

\* DeepContentCheck, lines 117-127
ResumeDeep(s) ==
    /\ LoopIdle
    /\ ready # <<>>
    /\ Head(ready) = Handle("resume", s, DeepIndex)
    /\ outcome' = [outcome EXCEPT ![s][DeepIndex] = DeepContentCheckResume(resp[s])]
    /\ done_order' = [done_order EXCEPT ![s] = Append(@, DeepIndex)]
    /\ ready' = Append(Tail(ready), Handle("done", s, DeepIndex))
    /\ UNCHANGED <<_session, created, pc, seen, req, resp, used, outer, nfinished,
                   via, verdict, calls, http>>

(***************************************************************************)
(* asyncio.gather: the callback run when a child task has finished         *)
(***************************************************************************)
IsException(o) == o.kind \in {"Veto", "Fail"}

\* line 147: return_exceptions=req.settings.link_deep_check
return_exceptions(r) == r.settings.link_deep_check

\* gather's _done_callback for child i
DoneCallback(s, i) ==
    /\ LoopIdle
    /\ ready # <<>>
    /\ Head(ready) = Handle("done", s, i)
    /\ IF outer[s].state # "pending"
       THEN \* the future was already completed by an earlier exception
            /\ ready' = Tail(ready)
            /\ UNCHANGED <<outer, nfinished>>
       ELSE IF ~return_exceptions(req[s]) /\ IsException(outcome[s][i])
       THEN \* the first exception is handed to the awaiting coroutine
            /\ outer' = [outer EXCEPT ![s] = OuterException(outcome[s][i])]
            /\ ready' = Append(Tail(ready), Handle("wake", s, 0))
            /\ UNCHANGED nfinished
       ELSE /\ nfinished' = [nfinished EXCEPT ![s] = @ + 1]
            /\ IF nfinished[s] + 1 = NumChecks
               THEN /\ outer' = [outer EXCEPT ![s] = OuterResult]
                    /\ ready' = Append(Tail(ready), Handle("wake", s, 0))
               ELSE /\ ready' = Tail(ready)
                    /\ UNCHANGED outer
    /\ UNCHANGED <<_session, created, pc, seen, req, outcome, resp, used, done_order,
                   via, verdict, calls, http>>

(***************************************************************************)
(* check(): lines 149-169, after gather has completed                      *)
(***************************************************************************)
\* line 169
GenericFailure == ScanResponse(FALSE, <<"CHECK_FAILED">>, "ERROR", "ERROR")

\* line 15: the model carried by CheckFailed (additional_info defaults to "")
CheckFailedModel(e) == ScanResponse(FALSE, <<>>, e.virus_type, e.virus_consequences)

\* lines 149-152
LoopStart == [raised |-> FALSE, _add |-> <<>>, result |-> TRUE,
              virus_type |-> "None", virus_consequences |-> "None"]

\* the loop without the assignment of result at line 156
LoopBody_ResultUnset(acc, comment) ==
    IF IsException(comment)
    THEN IF comment.kind = "Veto"
         THEN [acc EXCEPT !.virus_type = comment.virus_type,
                          !.virus_consequences = comment.virus_consequences]
         ELSE [acc EXCEPT !.raised = TRUE]
    ELSE IF comment.kind = "Advisory"
    THEN [acc EXCEPT !._add = @ \o <<comment.note, "\n">>]
    ELSE acc

\* the loop keeping the first veto: a later veto no longer overwrites the
\* hazard of an earlier one
LoopBody_KeepsFirst(acc, comment) ==
    IF IsException(comment)
    THEN IF comment.kind = "Veto"
         THEN IF acc.result
              THEN [acc EXCEPT !.result = FALSE,
                               !.virus_type = comment.virus_type,
                               !.virus_consequences = comment.virus_consequences]
              ELSE acc
         ELSE [acc EXCEPT !.raised = TRUE]
    ELSE IF comment.kind = "Advisory"
    THEN [acc EXCEPT !._add = @ \o <<comment.note, "\n">>]
    ELSE acc

\* the loop without the assignment of virus_consequences at line 158
LoopBody_NoConsequences(acc, comment) ==
    IF IsException(comment)
    THEN IF comment.kind = "Veto"
         THEN [acc EXCEPT !.result = FALSE,
                          !.virus_type = comment.virus_type]
         ELSE [acc EXCEPT !.raised = TRUE]
    ELSE IF comment.kind = "Advisory"
    THEN [acc EXCEPT !._add = @ \o <<comment.note, "\n">>]
    ELSE acc

\* the loop putting each advisory in front of the ones collected so far
LoopBody_Prepends(acc, comment) ==
    IF IsException(comment)
    THEN IF comment.kind = "Veto"
         THEN [acc EXCEPT !.result = FALSE,
                          !.virus_type = comment.virus_type,
                          !.virus_consequences = comment.virus_consequences]
         ELSE [acc EXCEPT !.raised = TRUE]
    ELSE IF comment.kind = "Advisory"
    THEN [acc EXCEPT !._add = <<comment.note, "\n">> \o @]
    ELSE acc

\* the loop without the "raise comment" of lines 159-160
LoopBody_SwallowsError(acc, comment) ==
    IF comment.kind = "Veto"
    THEN [acc EXCEPT !.result = FALSE,
                     !.virus_type = comment.virus_type,
                     !.virus_consequences = comment.virus_consequences]
    ELSE IF comment.kind = "Advisory"
    THEN [acc EXCEPT !._add = @ \o <<comment.note, "\n">>]
    ELSE acc

\* lines 154-162: one iteration of the loop over comments
LoopBody(acc, comment) ==
    IF IsException(comment)
    THEN IF comment.kind = "Veto"
         THEN [acc EXCEPT !.result = FALSE,
                          !.virus_type = comment.virus_type,
                          !.virus_consequences = comment.virus_consequences]
         ELSE [acc EXCEPT !.raised = TRUE]
    ELSE IF comment.kind = "Advisory"
    THEN [acc EXCEPT !._add = @ \o <<comment.note, "\n">>]
    ELSE acc

\* lines 153-162: the loop, left as soon as a comment is re-raised
RECURSIVE Loop(_, _, _)
Loop(comments, k, acc) ==
    IF k > Len(comments) \/ acc.raised THEN acc
    ELSE Loop(comments, k + 1, LoopBody(acc, comments[k]))

\* lines 149-169: the verdict and the line of the return statement taken
CheckResult(fut, comments) ==
    IF fut.state = "exception"
    THEN IF fut.exc.kind = "Veto"
         THEN [verdict |-> CheckFailedModel(fut.exc), via |-> 166]
         ELSE [verdict |-> GenericFailure, via |-> 169]
    ELSE LET acc == Loop(comments, 1, LoopStart)
         IN  IF acc.raised
             THEN [verdict |-> GenericFailure, via |-> 169]
             ELSE [verdict |-> ScanResponse(acc.result,
                                  IF acc.result THEN <<"SAFE">> \o acc._add ELSE acc._add,
                                  acc.virus_type, acc.virus_consequences),
                   via |-> 163]

\* check() is resumed with the result or the exception of gather
Wake(s) ==
    /\ LoopIdle
    /\ ready # <<>>
    /\ Head(ready) = Handle("wake", s, 0)
    /\ ready' = Tail(ready)
    /\ pc' = [pc EXCEPT ![s] = "Collecting"]
    /\ UNCHANGED <<_session, created, seen, req, outcome, resp, used, outer, nfinished,
                   done_order, via, verdict, calls, http>>

\* lines 149-169: build the verdict
Aggregate(s) ==
    /\ pc[s] = "Collecting"
    /\ LET r == CheckResult(outer[s], outcome[s])
       IN  /\ verdict' = [verdict EXCEPT ![s] = r.verdict]
           /\ via' = [via EXCEPT ![s] = r.via]
           /\ pc' = [pc EXCEPT ![s] = IF r.via = 169 THEN "EngineFailure" ELSE "Aggregated"]
    /\ UNCHANGED <<_session, created, ready, seen, req, outcome, resp, used, outer,
                   nfinished, done_order, calls, http>>

\* the return statement: the caller receives the verdict
Return(s) ==
    /\ pc[s] \in {"Aggregated", "EngineFailure"}
    /\ pc' = [pc EXCEPT ![s] = "Returned"]
    /\ UNCHANGED <<_session, created, ready, seen, req, outcome, resp, used, outer,
                   nfinished, done_order, via, verdict, calls, http>>

\* the steps of the event loop and of the network, for every scan
Step ==
    \/ \E s \in Scans : CheckBegin(s)
    \/ \E s \in Scans, i \in 1..NumChecks : RunPure(s, i)
    \/ \E s \in Scans : RunDeep(s)
    \/ \E s \in Scans, r \in Responses : FetchComplete(s, r)
    \/ \E s \in Scans : ResumeDeep(s)
    \/ \E s \in Scans, i \in 1..NumChecks : DoneCallback(s, i)
    \/ \E s \in Scans : Wake(s)
    \/ \E s \in Scans : Aggregate(s)
    \/ \E s \in Scans : Return(s)

\* one caller, one scan after the other, every request
Next ==
    \/ \E r \in ScanRequest : Call("a", r)
    \/ Step

Spec == Init /\ [][Next]_vars

\* callers that overlap: a scan may be called while another one is running
ConcUrls == {UrlTrusted, UrlTypoTld, UrlBad}
ConcRequests == [url : ConcUrls, settings : UserSettings]

NextConc ==
    \/ \E s \in Scans, r \in ConcRequests : Call(s, r)
    \/ Step

SpecConc == Init /\ [][NextConc]_vars

\* the steps of the engine other than the run of a unit that never fetches
EngineStep ==
    \/ \E s \in Scans : CheckBegin(s)
    \/ \E s \in Scans : RunDeep(s)
    \/ \E s \in Scans, r \in Responses : FetchComplete(s, r)
    \/ \E s \in Scans : ResumeDeep(s)
    \/ \E s \in Scans, i \in 1..NumChecks : DoneCallback(s, i)
    \/ \E s \in Scans : Wake(s)
    \/ \E s \in Scans : Aggregate(s)
    \/ \E s \in Scans : Return(s)

\* the run of a unit that never fetches, told by the ready queue alone: the
\* task at the head is replaced by the done callback of its future.  It is
\* possible exactly when RunPure is, and a step of Next is one exactly when
\* it is a step of RunPure.
UnitTurn ==
    \E s \in Scans, i \in 1..(NumChecks - 1) :
        /\ LoopIdle
        /\ ready # <<>>
        /\ Head(ready) = Handle("unit", s, i)
        /\ ready' = Append(Tail(ready), Handle("done", s, i))

\* the event loop runs every callback of its ready queue, and the fetch of
\* line 116 ends with a response, an error or its 4 s timeout: a step of the
\* engine that stays possible is taken
SpecFair == Init /\ [][Next]_vars /\ WF_vars(EngineStep) /\ WF_ready(UnitTurn)

(***************************************************************************)
(* Vocabulary of the properties                                            *)
(***************************************************************************)
\* the scan has built its verdict
HasVerdict(s) == pc[s] \in {"Aggregated", "EngineFailure", "Returned"}

\* the indices of the units that vetoed / ended in a non-veto error
Vetoes(outs) == {i \in DOMAIN outs : outs[i].kind = "Veto"}
Fails(outs) == {i \in DOMAIN outs : outs[i].kind = "Fail"}

Vetoed(s) == Vetoes(outcome[s]) # {}
Failed(s) == Fails(outcome[s]) # {}

Min(S) == CHOOSE x \in S : \A y \in S : x <= y
Max(S) == CHOOSE x \in S : \A y \in S : x >= y

Strict(s) == ~req[s].settings.link_deep_check
Lenient(s) == req[s].settings.link_deep_check
DeepEnabled(s) ==
    req[s].settings.allow_get_links_contents /\ req[s].settings.link_deep_check

Parses(s) == urlparse(req[s].url).ok
SchemeOf(s) == urlparse(req[s].url).scheme
HostOf(s) == hostname(urlparse(req[s].url))
Https == <<"h","t","t","p","s">>

\* the advisory texts of outs in registry order, each followed by a newline
RECURSIVE Notes(_)
Notes(outs) ==
    IF outs = <<>> THEN <<>>
    ELSE (IF Head(outs).kind = "Advisory" THEN <<Head(outs).note, "\n">> ELSE <<>>)
         \o Notes(Tail(outs))

\* the verdict that depends on the outcomes in registry order only:
\* strict mode answers with the first exception of the registry, lenient
\* mode fails on any error and otherwise reports the last veto
RegistryOrderVerdict(r, outs) ==
    LET safe == ScanResponse(TRUE, <<"SAFE">> \o Notes(outs), "None", "None")
        exceptions == Vetoes(outs) \cup Fails(outs)
    IN  IF ~r.settings.link_deep_check
        THEN IF exceptions = {} THEN safe
             ELSE LET e == outs[Min(exceptions)]
                  IN  IF e.kind = "Veto"
                      THEN ScanResponse(FALSE, <<>>, e.virus_type, e.virus_consequences)
                      ELSE GenericFailure
        ELSE IF Fails(outs) # {} THEN GenericFailure
        ELSE IF Vetoes(outs) = {} THEN safe
        ELSE LET e == outs[Max(Vetoes(outs))]
             IN  ScanResponse(FALSE, Notes(outs), e.virus_type, e.virus_consequences)

\* the outcomes of the seven units that never fetch
SevenOutcomes(r) == [i \in 1..(NumChecks - 1) |-> PureCheck(i, r)]

\* the verdict the seven units that never fetch determine on their own
SevenUnitVerdict(r) == RegistryOrderVerdict(r, SevenOutcomes(r))

(***************************************************************************)
(* C1                                                                      *)
(***************************************************************************)
\* C1 as stated: a verdict has result = False if and only if at least one
\* unit vetoed during the scan.
C1_ResultFalseIffVeto ==
    \A s \in Scans : HasVerdict(s) => (verdict[s].result = FALSE <=> Vetoed(s))

\* C1 amended: a verdict has result = False if and only if at least one unit
\* vetoed or at least one unit ended in a non-veto error.
C1_ResultFalseIffVetoOrError ==
    \A s \in Scans :
        HasVerdict(s) => (verdict[s].result = FALSE <=> (Vetoed(s) \/ Failed(s)))

\* a scan with an error and no veto has answered result = False
C1_Witness ==
    \E s \in Scans :
        HasVerdict(s) /\ Failed(s) /\ ~Vetoed(s) /\ verdict[s].result = FALSE

(***************************************************************************)
(* C2                                                                      *)
(***************************************************************************)
\* C2: for every request whose scheme is not https the verdict is
\* result = False with virus_type UNSAFE_HTTP, whatever the settings and the
\* other units' outcomes.
C2_NonHttpsIsUnsafeHttp ==
    \A s \in Scans :
        (HasVerdict(s) /\ Parses(s) /\ SchemeOf(s) # Https)
        => (verdict[s].result = FALSE /\ verdict[s].virus_type = "UNSAFE_HTTP")

(***************************************************************************)
(* C3                                                                      *)
(***************************************************************************)
IpHost(s) == Parses(s) /\ HostOf(s) # <<>> /\ ip_address(HostOf(s))

C4_FailClosed ==
    \A s \in Scans :
        (HasVerdict(s) /\ Failed(s))
        => /\ verdict[s] = ScanResponse(FALSE, <<"CHECK_FAILED">>, "ERROR", "ERROR")
           /\ via[s] = 169
           /\ pc[s] # "Aggregated"

\* a lenient scan in which a unit ended in an error has returned
C4_Witness ==
    \E s \in Scans :
        /\ pc[s] = "Returned" /\ Failed(s) /\ Lenient(s)
        /\ outer[s].state = "result"
        /\ verdict[s] = GenericFailure

(***************************************************************************)
(* C5                                                                      *)
(***************************************************************************)
\* C5: the verdict is determined by the request and the units' outcomes in
\* registry order: it never depends on when the units of a scan, or of a
\* scan running beside it, complete; two scans with the same request and the
\* same outcomes return the same verdict.
C5_VerdictIndependentOfCompletionOrder ==
    /\ \A s \in Scans :
          HasVerdict(s) => verdict[s] = RegistryOrderVerdict(req[s], outcome[s])
    /\ \A s, t \in Scans :
          (HasVerdict(s) /\ HasVerdict(t) /\ req[s] = req[t] /\ outcome[s] = outcome[t])
          => verdict[s] = verdict[t]

\* two overlapping strict scans of one request in which two units vetoed
C5_Witness ==
    \E s, t \in Scans :
        /\ s # t /\ HasVerdict(s) /\ HasVerdict(t)
        /\ req[s] = req[t] /\ outcome[s] = outcome[t]
        /\ Strict(s) /\ Cardinality(Vetoes(outcome[s])) >= 2
        /\ seen[s] # seen[t]

(***************************************************************************)
(* C6                                                                      *)
(***************************************************************************)
\* C6: when two or more units veto and no unit ends in a non-veto error,
\* virus_type and virus_consequences are those of the first vetoing unit in
\* enabled_checks order, in strict and in lenient mode alike.
C6_FirstVetoReported ==
    \A s \in Scans :
        (HasVerdict(s) /\ Cardinality(Vetoes(outcome[s])) >= 2 /\ ~Failed(s))
        => LET first == outcome[s][Min(Vetoes(outcome[s]))]
           IN  /\ verdict[s].virus_type = first.virus_type
               /\ verdict[s].virus_consequences = first.virus_consequences

(***************************************************************************)
(* C7                                                                      *)
(***************************************************************************)
\* C7: if allow_get_links_contents or link_deep_check is False, the
\* deep-content unit never fetches on the shared client and returns None,
\* and the verdict is the one the other seven units determine.
C7_DeepDisabledNoFetch ==
    \A s \in Scans :
        ~DeepEnabled(s)
        => /\ used[s] = 0
           /\ outcome[s][DeepIndex] \in {Pending, Pass}
           /\ HasVerdict(s) => (outcome[s][DeepIndex] = Pass
                                /\ verdict[s] = SevenUnitVerdict(req[s]))

\* a scan with exactly one of the two settings enabled has built its verdict
\* while the shared client existed
C7_Witness ==
    \E s \in Scans :
        /\ HasVerdict(s) /\ _session # 0
        /\ req[s].settings.allow_get_links_contents
        /\ ~req[s].settings.link_deep_check
        /\ outcome[s][DeepIndex] = Pass

(***************************************************************************)
(* C8                                                                      *)
(***************************************************************************)
\* the fetch was issued and ended in a network error, timeout or decode error
FetchFailed(s) == used[s] # 0 /\ resp[s] = FetchError

\* C8: when the fetch fails (network error, timeout, body decode error) the
\* deep-content unit yields the advisory DEEP_CHECK_FAILED_WARNING, the scan
\* ends Aggregated, result, virus_type and virus_consequences are those the
\* other seven units determine, and the verdict is never the generic
\* engine-failure verdict.
C8_FetchFailureIsAdvisory ==
    \A s \in Scans :
        (HasVerdict(s) /\ DeepEnabled(s) /\ FetchFailed(s))
        => LET seven == SevenUnitVerdict(req[s])
           IN  /\ outcome[s][DeepIndex] = Advisory("DEEP_CHECK_FAILED_WARNING")
               /\ pc[s] # "EngineFailure"
               /\ via[s] = 163
               /\ verdict[s] # ScanResponse(FALSE, <<"CHECK_FAILED">>, "ERROR", "ERROR")
               /\ verdict[s].result = seven.result
               /\ verdict[s].virus_type = seven.virus_type
               /\ verdict[s].virus_consequences = seven.virus_consequences

\* a scan in which another unit vetoed and the fetch failed has ended
\* Aggregated with the warning in its text
C8_Witness ==
    \E s \in Scans :
        /\ HasVerdict(s) /\ DeepEnabled(s) /\ FetchFailed(s)
        /\ via[s] = 163
        /\ verdict[s].result = FALSE
        /\ "DEEP_CHECK_FAILED_WARNING" \in Range(verdict[s].additional_info)

(***************************************************************************)
(* C9                                                                      *)
(***************************************************************************)
\* C9: a request whose hostname is in _trusted_domains, whose scheme is https
\* and for which no unit vetoes gets result = True, no virus_type, no
\* virus_consequences and the TRUSTED_DOMAIN note, for all settings and also
\* when the fetch fails.
C9_TrustedIsSafe ==
    \A s \in Scans :
        (HasVerdict(s) /\ Parses(s) /\ HostOf(s) \in _trusted_domains
         /\ SchemeOf(s) = Https /\ ~Vetoed(s))
        => /\ verdict[s].result = TRUE
           /\ verdict[s].virus_type = "None"
           /\ verdict[s].virus_consequences = "None"
           /\ "TRUSTED_DOMAIN" \in Range(verdict[s].additional_info)

\* a trusted host written with capitals and a port was scanned while the
\* fetch failed
C9_Witness ==
    \E s \in Scans :
        /\ HasVerdict(s) /\ req[s].url = UrlTrustedPort
        /\ FetchFailed(s)
        /\ verdict[s].result = TRUE

(***************************************************************************)
(* C10                                                                     *)
(***************************************************************************)
\* C10: with link_deep_check = False, sequential or overlapping scans of one
\* request return identical verdicts, whether or not the shared client had
\* been created by an earlier scan.
C10_Idempotent ==
    \A s, t \in Scans :
        (HasVerdict(s) /\ HasVerdict(t) /\ req[s] = req[t] /\ Strict(s))
        => verdict[s] = verdict[t]

\* two scans of one strict request: one created the client, one found it
C10_Witness ==
    \E s, t \in Scans :
        /\ s # t /\ pc[s] = "Returned" /\ pc[t] = "Returned"
        /\ req[s] = req[t] /\ Strict(s)
        /\ req[s].settings.allow_get_links_contents
        /\ seen[s] = 0 /\ seen[t] # 0

(***************************************************************************)
(* C11                                                                     *)
(***************************************************************************)
\* the SAFE preamble when result is True, then the advisory texts of every
\* unit in registry order, each followed by a newline
AllAdvisories(s) ==
    (IF verdict[s].result THEN <<"SAFE">> ELSE <<>>) \o Notes(outcome[s])

\* C11 as stated: for every scan that ends without a non-veto error,
\* additional_info is the advisory texts of all units that returned one, in
\* registry order, each followed by a newline, with the SAFE preamble exactly
\* when result = True; also when another unit vetoes and in strict mode.
C11_NoAdvisoryDropped ==
    \A s \in Scans :
        (HasVerdict(s) /\ ~Failed(s)) => verdict[s].additional_info = AllAdvisories(s)

\* C11 amended: for every scan that ends without a non-veto error,
\* additional_info is the SAFE preamble (exactly when result = True) and the
\* advisory texts of all units in registry order, each followed by a newline,
\* except that a strict scan in which a unit vetoes answers with an empty
\* additional_info.
C11_AdvisoriesKeptUnlessStrictVeto ==
    \A s \in Scans :
        (HasVerdict(s) /\ ~Failed(s))
        => verdict[s].additional_info =
               (IF Strict(s) /\ Vetoed(s) THEN <<>> ELSE AllAdvisories(s))

\* a lenient scan with a veto and two advisories kept both, in registry order
C11_Witness ==
    \E s \in Scans :
        /\ HasVerdict(s) /\ Lenient(s) /\ Vetoed(s) /\ ~Failed(s)
        /\ Len(Notes(outcome[s])) >= 4
        /\ verdict[s].additional_info = Notes(outcome[s])

(***************************************************************************)
(* C12                                                                     *)
(***************************************************************************)
\* unit i of scan s has ended: it returned, vetoed or failed
Completed(s, i) == outcome[s][i].kind \notin {"Pending", "Fetching"}

\* C12: a veto or an error of one unit never cancels a sibling, and check
\* builds its verdict only after every unit of enabled_checks has completed,
\* in strict mode as well as in lenient mode: once check has been resumed,
\* every unit has ended, each of the seven units that never fetch with the
\* outcome it computes on its own, and each unit has ended exactly once.
C12_VerdictAfterAllUnits ==
    \A s \in Scans :
        pc[s] \in {"Collecting", "Aggregated", "EngineFailure", "Returned"}
        => /\ \A i \in 1..NumChecks : Completed(s, i)
           /\ \A i \in 1..(NumChecks - 1) : outcome[s][i] = PureCheck(i, req[s])
           /\ \A i, j \in 1..Len(done_order[s]) :
                  done_order[s][i] = done_order[s][j] => i = j
           /\ Len(done_order[s]) = NumChecks

\* a strict scan whose first unit vetoed has its verdict, and the siblings
\* after the vetoing unit ran to their own outcomes
C12_Witness ==
    \E s \in Scans :
        /\ HasVerdict(s) /\ Strict(s) /\ via[s] = 166
        /\ outcome[s][1].kind = "Veto"
        /\ outcome[s][2].kind = "Advisory"
        /\ \A i \in 1..NumChecks : Completed(s, i)

(***************************************************************************)
(* C13                                                                     *)
(***************************************************************************)
\* C13: for any interleaving of concurrent calls of check, the shared client
\* is created at most once, is never reset to None or replaced afterwards,
\* and every later scan and every fetch of DeepContentCheck uses that same
\* instance.  Clients are numbered in the order of their creation, so the
\* module's _session is the only client ever made exactly when it equals the
\* number of clients made.
C13_OneSharedSession ==
    /\ created <= 1
    /\ _session = created
    /\ \A s \in Scans :
        /\ pc[s] \notin {"Idle", "Started"} => _session = 1
        /\ seen[s] \in {0, 1}
        /\ used[s] \in {0, 1}

\* two overlapping scans fetched: the first found no client and made it, the
\* second found it, and both fetches went through it
C13_Witness ==
    \E s, t \in Scans :
        /\ s # t /\ seen[s] = 0 /\ seen[t] = 1
        /\ used[s] = 1 /\ used[t] = 1
        /\ outcome[s][DeepIndex] = Fetching /\ outcome[t][DeepIndex] = Fetching
        /\ created = 1

(***************************************************************************)
(* C14                                                                     *)
(***************************************************************************)
\* C14: for every request, the verdict POST /scan returns equals the verdict
\* check produces for that request.
C14_HandlerEqualsEngine ==
    \A s \in Scans : HasVerdict(s) => http[s] = verdict[s]

(***************************************************************************)
(* C15                                                                     *)
(***************************************************************************)
\* C15: for every verdict of check, on the aggregated path, on the veto
\* short-circuit of strict mode and on the generic engine failure,
\* virus_type and virus_consequences are both non-None if and only if
\* result is False; a verdict with result = True has neither.
C15_HazardSetIffUnsafe ==
    \A s \in Scans :
        HasVerdict(s)
        => /\ via[s] \in {163, 166, 169}
           /\ (verdict[s].virus_type # "None" /\ verdict[s].virus_consequences # "None")
                  <=> verdict[s].result = FALSE
           /\ verdict[s].result = TRUE
                  => (verdict[s].virus_type = "None"
                      /\ verdict[s].virus_consequences = "None")

\* a lenient scan with a veto returned from the aggregated path with both
\* fields set
C15_Witness ==
    \E s \in Scans :
        /\ pc[s] = "Returned" /\ via[s] = 163 /\ Vetoed(s)
        /\ verdict[s].result = FALSE
        /\ verdict[s].virus_type # "None" /\ verdict[s].virus_consequences # "None"

(***************************************************************************)
(* C16                                                                     *)
(***************************************************************************)
\* C16: in strict mode, if any unit other than DeepContentCheck ends in a
\* non-veto error, gather raises, the scan fails hard and the caller receives
\* the generic engine-failure verdict with virus_type ERROR, whatever the
\* other units of the scan did.
C16_StrictErrorFailsHard ==
    \A s \in Scans :
        (pc[s] = "Returned" /\ Strict(s)
         /\ \E i \in 1..(NumChecks - 1) : outcome[s][i].kind = "Fail")
        => /\ outer[s].state = "exception"
           /\ outer[s].exc.kind = "Fail"
           /\ verdict[s].result = FALSE
           /\ verdict[s].virus_type = "ERROR"
           /\ verdict[s].additional_info = <<"CHECK_FAILED">>

\* a strict scan of a URL urlparse rejects has returned: the error of the
\* first unit was raised by gather and caught at line 167
C16_Witness ==
    \E s \in Scans :
        /\ pc[s] = "Returned" /\ Strict(s) /\ ~Parses(s)
        /\ outcome[s][1].kind = "Fail"
        /\ outer[s].state = "exception"
        /\ via[s] = 169

(***************************************************************************)
(* C17                                                                     *)
(***************************************************************************)
\* the moves of a scan through its states; from Returned the caller may
\* start the next scan
ScanMoves ==
    {<<"Idle", "Started">>, <<"Started", "FannedOut">>,
     <<"FannedOut", "Collecting">>,
     <<"Collecting", "Aggregated">>, <<"Collecting", "EngineFailure">>,
     <<"Aggregated", "Returned">>, <<"EngineFailure", "Returned">>,
     <<"Returned", "Started">>}

\* one step of scan s: it stays where it is or makes one of the moves; while
\* it is the same scan, a unit that has ended is not run again and a verdict
\* that was built is not built again; it returns with a verdict
ScanStep(s) ==
    /\ pc'[s] # pc[s] => <<pc[s], pc'[s]>> \in ScanMoves
    /\ pc'[s] # "Started"
       => /\ \A i \in 1..NumChecks :
                Completed(s, i) => outcome'[s][i] = outcome[s][i]
          /\ verdict[s] # NoVerdict => verdict'[s] = verdict[s]
          /\ (verdict'[s] # NoVerdict) <=> (pc'[s] \in {"Aggregated", "EngineFailure", "Returned"})

\* C17: every scan moves through Started, Fanned-out, Collecting, then one
\* of Aggregated and EngineFailure, then Returned, in that order, with no
\* state skipped or revisited and no unit retried; and, the fetch completing
\* or timing out, every started scan eventually reaches Returned with
\* exactly one verdict.
C17_ScanLifecycle ==
    /\ [][\A s \in Scans : ScanStep(s)]_vars
    /\ \A s \in Scans : (pc[s] = "Started") ~> (pc[s] = "Returned")

\* a scan that fetched has returned its aggregated verdict, and another one
\* before it had returned too
C17_Witness ==
    \E s \in Scans :
        /\ pc[s] = "Returned" /\ used[s] # 0 /\ resp[s] # NoResponse
        /\ via[s] = 163 /\ verdict[s] # NoVerdict
        /\ calls = MaxCalls

(***************************************************************************)
(* C18                                                                     *)
(***************************************************************************)
\* two or more units vetoed and none ended in a non-veto error
SeveralVetoes(s) == Cardinality(Vetoes(outcome[s])) >= 2 /\ ~Failed(s)

\* the verdict of scan s carries the hazard of unit i
HazardOf(s, i) ==
    /\ verdict[s].virus_type = outcome[s][i].virus_type
    /\ verdict[s].virus_consequences = outcome[s][i].virus_consequences

\* C18 as stated: when two or more units veto in the same scan and no unit
\* fails with a non-veto error, the verdict's virus_type and
\* virus_consequences are those of the last vetoing unit in registry order,
\* for every request and both values of link_deep_check.
C18_LastVetoReported ==
    \A s \in Scans :
        (HasVerdict(s) /\ SeveralVetoes(s)) => HazardOf(s, Max(Vetoes(outcome[s])))

\* C18 amended: when two or more units veto in the same scan and no unit
\* fails with a non-veto error, the verdict's virus_type and
\* virus_consequences are those of the last vetoing unit in registry order
\* when link_deep_check is True, and those of the first vetoing unit when
\* link_deep_check is False.
C18_LastVetoLenientFirstStrict ==
    \A s \in Scans :
        (HasVerdict(s) /\ SeveralVetoes(s))
        => /\ Lenient(s) => HazardOf(s, Max(Vetoes(outcome[s])))
           /\ Strict(s) => HazardOf(s, Min(Vetoes(outcome[s])))

\* a lenient scan with two vetoes of different hazards reported the last one
C18_Witness ==
    \E s \in Scans :
        /\ HasVerdict(s) /\ SeveralVetoes(s) /\ Lenient(s)
        /\ HazardOf(s, Max(Vetoes(outcome[s])))
        /\ ~HazardOf(s, Min(Vetoes(outcome[s])))

(***************************************************************************)
(* C19                                                                     *)
(***************************************************************************)
\* scans s and t are of one URL with allow_get_links_contents = False, s in
\* strict and t in lenient mode, both have their verdicts and no unit of
\* either ended in a non-veto error
StrictLenientPair(s, t) ==
    /\ HasVerdict(s) /\ HasVerdict(t)
    /\ req[s].url = req[t].url
    /\ ~req[s].settings.allow_get_links_contents
    /\ ~req[t].settings.allow_get_links_contents
    /\ Strict(s) /\ Lenient(t)
    /\ ~Failed(s) /\ ~Failed(t)

\* C19: for any URL with allow_get_links_contents = False and no unit failing
\* with a non-veto error, the result flag of the verdict is the same for
\* link_deep_check = False and link_deep_check = True.
C19_ModeKeepsResult ==
    \A s, t \in Scans :
        StrictLenientPair(s, t) => verdict[s].result = verdict[t].result

\* a strict and a lenient scan of one URL, both unsafe, with different
\* hazards and different additional_info
C19_Witness ==
    \E s, t \in Scans :
        /\ StrictLenientPair(s, t)
        /\ verdict[s].result = FALSE /\ verdict[t].result = FALSE
        /\ verdict[s].virus_type # verdict[t].virus_type
        /\ verdict[s].additional_info # verdict[t].additional_info

(***************************************************************************)
(* C20                                                                     *)
(***************************************************************************)
\* DeepContentCheck of scan s has run
DeepRan(s) == outcome[s][DeepIndex] # Pending

\* C20: whenever DeepContentCheck.check runs as part of a scan started
\* through check, _session is not None, so the branch of lines 111-113 is
\* never taken, under any interleaving of concurrent scans: from the moment
\* a scan has fanned out the client exists, and a DeepContentCheck that got
\* past line 109 went on to fetch through it.
C20_SessionBranchUnreachable ==
    \A s \in Scans :
        /\ pc[s] \notin {"Idle", "Started"} => _session # 0
        /\ (DeepRan(s) /\ DeepEnabled(s)) => (used[s] # 0 /\ used[s] = _session)

\* a scan that found the client made by another scan ran DeepContentCheck
\* past line 109 and fetched
C20_Witness ==
    \E s \in Scans :
        /\ DeepRan(s) /\ DeepEnabled(s)
        /\ seen[s] # 0
        /\ used[s] # 0

====
